---------------------------- MODULE Spec2Model ----------------------------
(***************************************************************************)
(* The interactive session of run_rotate.py: the global dictionary `state` *)
(* set up by run(), the three initialisation calls of Callbacks.__call__   *)
(* on window-less visualizers, and the key-event loop of                   *)
(* draw_geometries_with_key_callbacks, in which every key event runs       *)
(* Callbacks.__call__ once, start to end.                                  *)
(*                                                                         *)
(* Numbers.  angle_y and angle_z are degrees (the floats of the source     *)
(* only ever hold multiples of 5, which floats represent exactly).         *)
(* radius is the double of the source, exactly: every value it takes is a  *)
(* multiple of 2^-57, written as steps * c + err in that unit, where       *)
(* c = (2^57 + 8) / 20 is the double 0.05, steps is the number of H events *)
(* less the number of G events counted from 0, and err is the rounding     *)
(* error accumulated; the 7 of the source is 140 * c - 56.                 *)
(*                                                                         *)
(* Collaborators (renderer, visibility oracle, warping, network) are pure  *)
(* functions of their arguments: a frame is represented by the arguments   *)
(* it was computed from.  What project_points, the renderer and the        *)
(* network return, value by value, is held in `collab`, fixed for a        *)
(* session; the keypoints projected and the tiles of out_image are         *)
(* computed from it as lines 165-226 compute them.                         *)
(***************************************************************************)
EXTENDS Integers, Sequences, FiniteSets, TLC

VARIABLES
    state,     \* the global dictionary `state`: a function from its keys
    phase,     \* where run() is: init_model, init_appearance, init_noop, loop, ended
    files,     \* the dump_id field of every file cv2.imwrite has written, in order
    display,   \* what cv2.imshow('Output', .) shows: << >> or <<frame>>
    vpoint,    \* the last arguments of pascal_vpoint_to_extrinsics: << >> or <<[az, el, radius]>>
    ev,        \* the last call of Callbacks.__call__: key, window, error raised, number of steps
               \* completed, and its kpoints_2d, its out_image and the file it wrote, if any
    count,     \* history: calls with key N, calls with key X, failed renders since the last frame
    collab     \* what the collaborators return: project_points for each keypoint,
               \* the renderer's float buffer and the network's image, pixel by pixel

vars == <<state, phase, files, display, vpoint, ev, count, collab>>

---------------------------------------------------------------------------
(* Program constants *)

RadiusScale == 20
InitAngleY == 90
InitAngleZ == 0
AngleStep == 5
RadiusStep == 1

(* The double 0.05 in units of 2^-57, modulo 2^30 *)
StepMod == 429496730
NumCads == 10
DatasetSize == 100
ImgW == 128
ImgH == 128

(* Normalised keypoint coordinates are counted in steps of 1 / KpScale, and raw
   pixel coordinates are multiples of PixelStep, which the division by the
   frame size turns into whole steps. *)
KpScale == 2
FloatScale == 2
Background == 255
PixelStep == ImgW \div KpScale

(* The names of the keypoints in the metadata file of a CAD model *)
KpNames == {"k1", "k2"}

(* "0" is the key 0 of Callbacks(0), called at line 289 only.  RegisteredKeys
   are the keys of key_callbacks, the only ones for which the window calls
   Callbacks.__call__. *)
KeyNoOp == "0"
RegisteredKeys == {"F", "D", "A", "S", "H", "G", " ", "N", "O", "P", "X"}

---------------------------------------------------------------------------
(* Dictionaries *)

Has(d, k) == k \in DOMAIN d

Put(d, k, v) == [x \in (DOMAIN d) \cup {k} |-> IF x = k THEN v ELSE d[x]]

EmptyDict == [x \in {} |-> 0]

---------------------------------------------------------------------------
(* Pure functions *)

Min2(a, b) == IF a <= b THEN a ELSE b

Max2(a, b) == IF a >= b THEN a ELSE b

(* np.clip(a, a_min, a_max) = minimum(maximum(a, a_min), a_max) *)
NpClip(a, lo, hi) == Min2(Max2(a, lo), hi)

(* Doubles [steps, err] of value (steps * c + err) * 2^-57, c the double 0.05.
   RadiusScale * c = 2^57 + 8, so that k * c exceeds k / RadiusScale by
   (2 * k) \div 5 units for the k used below, all multiples of 5. *)
Abs(x) == IF x >= 0 THEN x ELSE -x

Sign(x) == IF x > 0 THEN 1 ELSE IF x < 0 THEN -1 ELSE 0

FloatZero == [steps |-> 0, err |-> 0]

(* The double of a whole number n *)
FloatOfInt(n) == [steps |-> n * RadiusScale, err |-> -((2 * n * RadiusScale) \div 5)]

FloatLe(a, b) == a.steps < b.steps \/ (a.steps = b.steps /\ a.err <= b.err)

(* |value| >= b / RadiusScale, for b a multiple of 5 *)
AtLeast(k, e, b) ==
    IF Abs(k) # b THEN Abs(k) > b ELSE (2 * b) \div 5 + Sign(k) * e >= 0

(* The distance between neighbouring doubles at the value steps * c + err, in
   units of 2^-57: 2^(j+5) for a value of magnitude in [2^j, 2^(j+1)).
   UlpFrom(k, e, b, u) is called with |value| >= b / RadiusScale and u the
   distance at b / RadiusScale; every doubling of the value doubles it. *)
RECURSIVE UlpFrom(_, _, _, _)
UlpFrom(k, e, b, u) ==
    IF AtLeast(k, e, 2 * b) THEN UlpFrom(k, e, 2 * b, 2 * u) ELSE u

Ulp(k, e) ==
    IF AtLeast(k, e, 5) THEN UlpFrom(k, e, 5, 8)
    ELSE IF Abs(k) >= 3 THEN 4
    ELSE IF Abs(k) >= 2 THEN 2
    ELSE 1

(* (a * b) % p for 0 <= a, 0 <= b < p, in steps that stay below 2^31 *)
RECURSIVE MulMod(_, _, _)
MulMod(a, b, p) ==
    IF a = 0 THEN 0
    ELSE (((2 * MulMod(a \div 2, b, p)) % p) + ((a % 2) * b)) % p

(* (k * c + e) % p for p a power of two, at most 2^30 *)
Units(k, e, p) == (MulMod(k % p, StepMod % p, p) + (e % p)) % p

(* Rounding of the exact k * c + e to the nearest double, ties to even: the
   error term of the result. *)
RoundErr(k, e) ==
    LET u == Ulp(k, e)
        rem == Units(k, e, u)
        odd == Units(k, e, 2 * u) >= u
    IN  IF 2 * rem < u THEN e - rem
        ELSE IF 2 * rem > u THEN e + u - rem
        ELSE IF odd THEN e + u - rem ELSE e - rem

(* r + d * 0.05 for d = 1 or -1: one float addition or subtraction *)
FloatStep(r, d) == [steps |-> r.steps + d, err |-> RoundErr(r.steps + d, r.err)]

(* int(x) of a double: truncation towards zero *)
IntRadius(r) ==
    LET ka == Abs(r.steps)
        q == IF ka % RadiusScale # 0 \/ ka = 0 THEN ka \div RadiusScale
             ELSE IF (2 * ka) \div 5 + Sign(r.steps) * r.err >= 0 THEN ka \div RadiusScale
             ELSE ka \div RadiusScale - 1
    IN  IF r.steps >= 0 THEN q ELSE -q

(* np.clip on doubles *)
FloatClip(a, lo, hi) ==
    LET m == IF FloatLe(lo, a) THEN a ELSE lo
    IN  IF FloatLe(m, hi) THEN m ELSE hi

InitRadius == FloatOfInt(7)

PascalAz_NoWrap(angle_z) == angle_z + 90

PascalAz(angle_z) == (angle_z + 90) % 360

PascalEl_NoOffset(angle_y) == angle_y

PascalEl(angle_y) == 90 - angle_y

ClampedAngleY_NoClamp(st) == st.angle_y

ClampedAngleY(st) == NpClip(st.angle_y, -90, 90)

ClampedRadius(st) == FloatClip(st.radius, FloatZero, st.radius)

(* The arguments of pascal_vpoint_to_extrinsics for a state *)
Viewpoint(st) ==
    [az |-> PascalAz(st.angle_z),
     el |-> PascalEl(ClampedAngleY(st)),
     radius |-> ClampedRadius(st)]

(* The dictionary state['kpoints_3d'] read for CAD model c: a 3D point under
   every name. *)
Kpoints3dOf(c) == [k \in KpNames |-> [cad |-> c, name |-> k]]

(* project_points(point_3d, intrinsic, extrinsic): the pixel coordinates <<x, y>>
   of a point.  The function is not part of this file; its results are whatever
   the table proj holds for the point's name. *)
ProjectPoints(proj, point) == proj[point.name]

(* kpoints_2d_step /= (img_w, img_h) *)
DivideByFrame(xy) == <<(xy[1] * KpScale) \div ImgW, (xy[2] * KpScale) \div ImgH>>

ClipToFrame_NoClip(xy) == xy

(* np.clip(kpoints_2d_step, -1, 1) *)
ClipToFrame(xy) == <<NpClip(xy[1], -KpScale, KpScale), NpClip(xy[2], -KpScale, KpScale)>>

(* The loop of lines 175-181: kpoints_2d_step_dict *)
Kpoints2d(proj, st) ==
    LET all == Kpoints3dOf(st.kpoints_3d)
    IN  [k \in DOMAIN all |-> ClipToFrame(DivideByFrame(ProjectPoints(proj, all[k])))]

(* (src_normal * 255).astype(np.uint8), line 166.  A channel of the float
   buffer is counted in steps of 1 / (FloatScale * 255), so that the steps below
   FloatScale are the values the conversion truncates to 0. *)
ToUint8(c) == (c * 255) \div (FloatScale * 255)

SrcNormal(buffer) ==
    [i \in 1 .. Len(buffer) |-> [ch \in 1 .. 3 |-> ToUint8(buffer[i][ch])]]

(* np.all(src_normal == 0, axis=-1), line 167 *)
ObjectMask(src_normal) ==
    [i \in 1 .. Len(src_normal) |-> \A ch \in 1 .. 3 : src_normal[i][ch] = 0]

MaskArtifacts_MaskObject(net_image, object_mask) ==
    [i \in 1 .. Len(net_image) |->
        IF object_mask[i] THEN net_image[i] ELSE <<Background, Background, Background>>]

(* net_image[object_mask] = 255, line 220 *)
MaskArtifacts(net_image, object_mask) ==
    [i \in 1 .. Len(net_image) |->
        IF object_mask[i] THEN <<Background, Background, Background>> ELSE net_image[i]]

(* out_image, lines 222-226: the four images concatenated along axis 1, left to
   right.  The sketch goes through the LAB conversion, the normalisation and
   to_image, the other two through to_image: they are named by what they are
   made from. *)
Tiles(co, st) ==
    LET src_normal == SrcNormal(co.capture)
    IN  <<[tile |-> "sketch", of |-> src_normal],
          [tile |-> "central", of |-> st.texture_src],
          [tile |-> "net_image", of |-> MaskArtifacts(co.net, ObjectMask(src_normal))],
          [tile |-> "src_image", of |-> st.texture_src]>>

(* state['dataset'][i]: record i of a collection of DatasetSize records *)
DatasetHas(i) == i \in 0 .. (DatasetSize - 1)

(* The composited frame out_image, named by the inputs it is a pure function
   of: the mesh rendered and the camera pose (normal sketch and silhouette
   mask), the keypoints projected and the cad_idx handed to get_planes, and the
   texture example (planes, central crop, source image). *)
OutImage(st) ==
    LET vp == Viewpoint(st)
    IN  [mesh |-> st.geometries["mesh"].cad, az |-> vp.az, el |-> vp.el,
         radius |-> vp.radius, kpoints |-> st.kpoints_3d, cad_idx |-> st.cad_idx,
         texture |-> st.texture_src]

---------------------------------------------------------------------------
(* Callbacks.__call__ *)

Stages_SynthBeforeWarp ==
    <<"mutate", "pose", "capture", "project", "planes", "synth", "warp",
      "assemble", "mask", "tile", "display">>

(* The steps of one call, in the order of the source text. *)
Stages ==
    <<"mutate", "pose", "capture", "project", "planes", "warp", "assemble",
      "synth", "mask", "tile", "display">>

StageIndex(s) == CHOOSE i \in 1 .. Len(Stages) : Stages[i] = s

Completed(n) == SubSeq(Stages, 1, n)

(* The file written by key X *)
DumpFile(st) ==
    [dump_id |-> st.dump_id,
     el |-> 90 - st.angle_y,
     az |-> (st.angle_z + 90) % 360,
     rad |-> IntRadius(st.radius),
     image |-> st.dump_image]

NextCadIdx_NoWrap(i) == i + 1

NextCadIdx(i) == IF i + 1 = NumCads THEN 0 ELSE i + 1

LoadModel_StaleKeypoints(st) ==
    LET c == NextCadIdx(st.cad_idx)
        s1 == [st EXCEPT !.cad_idx = c]
        s2 == IF Has(s1, "kpoints_3d") THEN s1 ELSE Put(s1, "kpoints_3d", c)
        s3 == Put(s2, "normal_vertex_colors", c)
        mesh == IF Has(st.geometries, "mesh")
                THEN [st.geometries["mesh"] EXCEPT !.cad = c, !.vertex_colors = -1]
                ELSE [cad |-> c, vertex_colors |-> -1]
    IN  [s3 EXCEPT !.geometries = Put(st.geometries, "mesh", mesh)]

(* Lines 108-132.  The files of a CAD model are named by its index: the
   keypoints, the vertex normals and the mesh read for index c are written c. *)
LoadModel(st) ==
    LET c == NextCadIdx(st.cad_idx)
        s1 == [st EXCEPT !.cad_idx = c]
        s2 == Put(s1, "kpoints_3d", c)
        s3 == Put(s2, "normal_vertex_colors", c)
        mesh == IF Has(st.geometries, "mesh")
                THEN [st.geometries["mesh"] EXCEPT !.cad = c, !.vertex_colors = -1]
                ELSE [cad |-> c, vertex_colors |-> -1]
    IN  [s3 EXCEPT !.geometries = Put(st.geometries, "mesh", mesh)]

NoOpEffect_Drift(st) == [st EXCEPT !.angle_z = @ + AngleStep]

(* `pass`, the branch of key 0 *)
NoOpEffect(st) == st

(* The if/elif chain on self.key: the new dictionary, the error raised (or
   "none") and the files written. *)
Mutate(st, key) ==
    CASE key = KeyNoOp -> [st |-> NoOpEffect(st), err |-> "none", file |-> << >>]
      [] key = "X" ->
            IF Has(st, "dump_image")
            THEN [st |-> [st EXCEPT !.dump_id = @ + 1], err |-> "none",
                  file |-> <<DumpFile(st)>>]
            ELSE [st |-> st, err |-> "KeyError", file |-> << >>]
      [] key = "R" -> [st |-> st, err |-> "none", file |-> << >>]
      [] key = "F" -> [st |-> [st EXCEPT !.angle_y = @ + AngleStep], err |-> "none", file |-> << >>]
      [] key = "D" -> [st |-> [st EXCEPT !.angle_y = @ - AngleStep], err |-> "none", file |-> << >>]
      [] key = "S" -> [st |-> [st EXCEPT !.angle_z = @ + AngleStep], err |-> "none", file |-> << >>]
      [] key = "A" -> [st |-> [st EXCEPT !.angle_z = @ - AngleStep], err |-> "none", file |-> << >>]
      [] key = "H" -> [st |-> [st EXCEPT !.radius = FloatStep(@, RadiusStep)], err |-> "none", file |-> << >>]
      [] key = "G" -> [st |-> [st EXCEPT !.radius = FloatStep(@, -RadiusStep)], err |-> "none", file |-> << >>]
      [] key = " " ->
            IF DatasetHas(st.dataset_index)
            THEN [st |-> [Put(st, "texture_src", st.dataset_index)
                            EXCEPT !.dataset_index = @ + 1],
                  err |-> "none", file |-> << >>]
            ELSE [st |-> st, err |-> "IndexError", file |-> << >>]
      [] key = "N" -> [st |-> LoadModel(st), err |-> "none", file |-> << >>]
      [] OTHER -> [st |-> st, err |-> "NotImplementedError", file |-> << >>]

(* Lines 137-231 on the dictionary left by the if/elif chain.  window: whether
   the visualizer has a render option and a view control.  fail: the
   collaborator call that raises in this call ("none", "capture", "synth"). *)
Stop_PartialFrame(s1, e, stage) ==
    [st |-> Put(s1, "dump_image", OutImage(s1)), err |-> e, n |-> StageIndex(stage) - 1,
     vp |-> <<Viewpoint(s1)>>, shown |-> <<OutImage(s1)>>]

Stop(s1, e, stage) ==
    [st |-> s1, err |-> e, n |-> StageIndex(stage) - 1, vp |-> <<Viewpoint(s1)>>, shown |-> << >>]

RenderFrom_NoEarlyReturn(s1, window, fail) ==
    IF fail = "capture" THEN Stop(s1, "CollaboratorFailure", "capture")
    ELSE IF ~Has(s1, "kpoints_3d") THEN Stop(s1, "KeyError", "project")
    ELSE IF ~Has(s1, "texture_src") THEN Stop(s1, "KeyError", "warp")
    ELSE IF fail = "synth" THEN Stop(s1, "CollaboratorFailure", "synth")
    ELSE [st |-> Put(s1, "dump_image", OutImage(s1)), err |-> "none",
          n |-> StageIndex("display"), vp |-> <<Viewpoint(s1)>>, shown |-> <<OutImage(s1)>>]

RenderFrom(s1, window, fail) ==
    IF ~window
    THEN [st |-> s1, err |-> "none", n |-> StageIndex("pose"), vp |-> <<Viewpoint(s1)>>,
          shown |-> << >>]
    ELSE IF fail = "capture" THEN Stop(s1, "CollaboratorFailure", "capture")
    ELSE IF ~Has(s1, "kpoints_3d") THEN Stop(s1, "KeyError", "project")
    ELSE IF ~Has(s1, "texture_src") THEN Stop(s1, "KeyError", "warp")
    ELSE IF fail = "synth" THEN Stop(s1, "CollaboratorFailure", "synth")
    ELSE [st |-> Put(s1, "dump_image", OutImage(s1)), err |-> "none",
          n |-> StageIndex("display"), vp |-> <<Viewpoint(s1)>>, shown |-> <<OutImage(s1)>>]

Render(st, window, fail) ==
    IF ~(Has(st.geometries, "mesh") /\ Has(st, "normal_vertex_colors"))
    THEN [st |-> st, err |-> "KeyError", n |-> StageIndex("mutate"),
          vp |-> << >>, shown |-> << >>]
    ELSE RenderFrom([st EXCEPT !.geometries =
                        Put(@, "mesh", [@["mesh"] EXCEPT !.vertex_colors = st.normal_vertex_colors])],
                    window, fail)

(* One call Callbacks(key)(vis): everything it does. *)
CallFrom(m, window, fail) ==
    IF m.err # "none"
    THEN [st |-> m.st, err |-> m.err, n |-> 0, vp |-> << >>, shown |-> << >>,
          file |-> m.file]
    ELSE [file |-> m.file] @@ Render(m.st, window, fail)

Call(st, key, window, fail) == CallFrom(Mutate(st, key), window, fail)

(* The collaborator call that raises in a call: none, the renderer's capture
   (line 165) or the network (line 217). *)
Failures == <<"none", "capture", "synth">>

(* The call as a step of the session.  on_ok: where run() goes on when the call
   returns; on_raise: where it can be when the call raises. *)
Callback(key, window, on_ok, on_raise) ==
    \E f \in 1 .. (IF window THEN Len(Failures) ELSE 1) :
    \E c \in {Call(state, key, window, Failures[f])} :
      LET composed == c.shown # << >>
      IN  /\ state' = c.st
          /\ files' = files \o [i \in 1 .. Len(c.file) |-> c.file[i].dump_id]
          /\ display' = IF composed THEN c.shown ELSE display
          /\ vpoint' = IF c.vp # << >> THEN c.vp ELSE vpoint
          /\ ev' = [key |-> key, window |-> window, err |-> c.err, n |-> c.n,
                    kp2d |-> IF c.n >= StageIndex("project")
                             THEN <<Kpoints2d(collab.project, c.st)>> ELSE << >>,
                    out |-> IF c.n >= StageIndex("tile")
                            THEN <<Tiles(collab, c.st)>> ELSE << >>,
                    file |-> c.file]
          /\ UNCHANGED collab
          /\ count' = [N |-> count.N + (IF key = "N" THEN 1 ELSE 0),
                       X |-> count.X + (IF key = "X" THEN 1 ELSE 0),
                       stale |-> IF composed THEN 0
                                 ELSE IF c.err = "CollaboratorFailure" THEN count.stale + 1
                                 ELSE count.stale]
          /\ phase' \in (IF c.err = "none" THEN {on_ok} ELSE on_raise)

---------------------------------------------------------------------------
(* run() *)

InitState ==
    [angle_y |-> InitAngleY, angle_z |-> InitAngleZ, cad_idx |-> 0, dataset_index |-> 0,
     dump_id |-> 0, geometries |-> EmptyDict, radius |-> InitRadius]

(* The state on entry to line 287, for given collaborators. *)
InitWith(co) ==
    /\ state = InitState
    /\ phase = "init_model"
    /\ files = << >>
    /\ display = << >>
    /\ vpoint = << >>
    /\ ev = [key |-> "", window |-> FALSE, err |-> "none", n |-> 0, kp2d |-> << >>,
             out |-> << >>, file |-> << >>]
    /\ count = [N |-> 0, X |-> 0, stale |-> 0]
    /\ collab = co

(* A project_points that puts k1 inside the frame and k2 outside of it. *)
SomeProjector ==
    [k \in KpNames |-> IF k = "k1" THEN <<PixelStep, -PixelStep>>
                                   ELSE <<3 * PixelStep, -2 * PixelStep>>]

(* A float buffer with a background pixel and an object pixel, and a network
   image. *)
SomeCapture == <<<<0, 0, 0>>, <<FloatScale * 128, FloatScale * 255, 0>>>>

SomeNet == <<<<10, 20, 30>>, <<40, 50, 60>>>>

SomeCollab == [project |-> SomeProjector, capture |-> SomeCapture, net |-> SomeNet]

Init == InitWith(SomeCollab)

(* The steps the three controls are away from their defaults, together *)
Moves ==
    Abs(state.angle_y - InitAngleY) \div AngleStep
    + Abs(state.angle_z - InitAngleZ) \div AngleStep
    + Abs(state.radius.steps - InitRadius.steps) \div RadiusStep

(* The calls made with the keys space, N and X, together *)
Calls == state.dataset_index + count.N + count.X

(* The sessions checked: how far the controls may be moved from their defaults
   and how many calls of each kind are made. *)
InBox(b) ==
    /\ Moves <= b.moves
    /\ Calls <= b.calls
    /\ state.angle_y \in (InitAngleY - AngleStep * b.down) .. (InitAngleY + AngleStep * b.up)
    /\ state.angle_z \in (InitAngleZ - AngleStep * b.left) .. (InitAngleZ + AngleStep * b.right)
    /\ state.radius.steps \in (InitRadius.steps - RadiusStep * b.zin)
                                .. (InitRadius.steps + RadiusStep * b.zout)
    /\ state.dataset_index <= b.examples
    /\ count.N <= b.models
    /\ count.X <= b.dumps
    /\ count.stale <= b.stale

(* Lines 287-289: direct calls on o3d.Visualizer(), which has no window; an
   exception leaves run(). *)
InitModel == phase = "init_model" /\ Callback("N", FALSE, "init_appearance", {"ended"})

InitAppearance == phase = "init_appearance" /\ Callback(" ", FALSE, "init_noop", {"ended"})

InitNoOp == phase = "init_noop" /\ Callback(KeyNoOp, FALSE, "loop", {"ended"})

(* Line 290: a key event of the window calls its callback.  Nothing in
   Callbacks.__call__ or run() handles an exception: it leaves the callback,
   and the event loop of the library either goes on with the next event or
   hands the exception to run(), which ends. *)
KeyEvent(key) ==
    /\ phase = "loop"
    /\ key \in RegisteredKeys
    /\ Callback(key, TRUE, "loop", {"loop", "ended"})

RotateUp(b) == KeyEvent("F") /\ InBox(b)'

RotateDown(b) == KeyEvent("D") /\ InBox(b)'

RotateRight(b) == KeyEvent("S") /\ InBox(b)'

RotateLeft(b) == KeyEvent("A") /\ InBox(b)'

ZoomOut(b) == KeyEvent("H") /\ InBox(b)'

ZoomIn(b) == KeyEvent("G") /\ InBox(b)'

NextExample(b) == KeyEvent(" ") /\ InBox(b)'

NextModel(b) == KeyEvent("N") /\ InBox(b)'

DumpFrame(b) == KeyEvent("X") /\ InBox(b)'

(* The keys registered in key_callbacks that the if/elif chain does not know. *)
Unsupported(b) == \E key \in {"O", "P"} : KeyEvent(key) /\ InBox(b)'

---------------------------------------------------------------------------
(* Sessions with every event: the controls at most MaxSteps steps away from
   their defaults (all three together), at most MaxCalls calls with the keys
   space, N and X after the two of the initialisation. *)

MaxSteps == 1
MaxCalls == 1
MaxStale == 1

MainBox ==
    [up |-> MaxSteps, down |-> MaxSteps, left |-> MaxSteps, right |-> MaxSteps,
     zin |-> MaxSteps, zout |-> MaxSteps, moves |-> MaxSteps,
     examples |-> 1 + MaxCalls, models |-> 1 + MaxCalls, dumps |-> MaxCalls,
     calls |-> 2 + MaxCalls, stale |-> MaxStale]

Next ==
    \/ InitModel
    \/ InitAppearance
    \/ InitNoOp
    \/ RotateUp(MainBox)
    \/ RotateDown(MainBox)
    \/ RotateRight(MainBox)
    \/ RotateLeft(MainBox)
    \/ ZoomOut(MainBox)
    \/ ZoomIn(MainBox)
    \/ NextExample(MainBox)
    \/ NextModel(MainBox)
    \/ DumpFrame(MainBox)
    \/ Unsupported(MainBox)

Spec == Init /\ [][Next]_vars

---------------------------------------------------------------------------
(* Sessions of the viewpoint keys alone, with room to zoom in past radius 0. *)

SideSteps == 1
ZoomInSteps == 142

ZoomBox ==
    [up |-> SideSteps, down |-> 0, left |-> 0, right |-> SideSteps,
     zin |-> ZoomInSteps, zout |-> SideSteps, examples |-> 1, models |-> 1,
     dumps |-> 0, stale |-> MaxStale,
     moves |-> ZoomInSteps + 2 * SideSteps, calls |-> 2]

NextZoom ==
    \/ InitModel
    \/ InitAppearance
    \/ InitNoOp
    \/ RotateUp(ZoomBox)
    \/ RotateDown(ZoomBox)
    \/ RotateRight(ZoomBox)
    \/ RotateLeft(ZoomBox)
    \/ ZoomOut(ZoomBox)
    \/ ZoomIn(ZoomBox)

SpecZoom == Init /\ [][NextZoom]_vars

(* Sessions of the pitch keys, with room to pass both limits of the clamp. *)

PitchUpSteps == 2
PitchDownSteps == 38

PitchBox ==
    [up |-> PitchUpSteps, down |-> PitchDownSteps, left |-> 0, right |-> 0,
     zin |-> 0, zout |-> 0, examples |-> 1, models |-> 1,
     dumps |-> SideSteps, stale |-> MaxStale,
     moves |-> PitchUpSteps + PitchDownSteps, calls |-> 2 + SideSteps]

NextPitch ==
    \/ InitModel
    \/ InitAppearance
    \/ InitNoOp
    \/ RotateUp(PitchBox)
    \/ RotateDown(PitchBox)
    \/ DumpFrame(PitchBox)

SpecPitch == Init /\ [][NextPitch]_vars

(* Sessions of the yaw keys, with room to go below 0 and past 360. *)

YawRightSteps == 74
YawLeftSteps == 20

YawBox ==
    [up |-> 0, down |-> 0, left |-> YawLeftSteps, right |-> YawRightSteps,
     zin |-> 0, zout |-> 0, examples |-> 1, models |-> 1,
     dumps |-> 0, stale |-> MaxStale,
     moves |-> YawRightSteps + YawLeftSteps, calls |-> 2]

NextYaw ==
    \/ InitModel
    \/ InitAppearance
    \/ InitNoOp
    \/ RotateRight(YawBox)
    \/ RotateLeft(YawBox)

SpecYaw == Init /\ [][NextYaw]_vars

(* Sessions that go round the catalogue of CAD models. *)

CycleModels == 12

ModelsBox ==
    [up |-> 0, down |-> 0, left |-> 0, right |-> SideSteps,
     zin |-> 0, zout |-> 0, examples |-> 1, models |-> CycleModels,
     dumps |-> 0, stale |-> MaxStale,
     moves |-> SideSteps, calls |-> 1 + CycleModels]

NextModels ==
    \/ InitModel
    \/ InitAppearance
    \/ InitNoOp
    \/ NextModel(ModelsBox)
    \/ RotateRight(ModelsBox)
    \/ RotateLeft(ModelsBox)
    \/ Unsupported(ModelsBox)

SpecModels == Init /\ [][NextModels]_vars

(* Sessions that go through the whole dataset. *)

ManyExamples == 101

ExamplesBox ==
    [up |-> SideSteps, down |-> 0, left |-> 0, right |-> 0,
     zin |-> 0, zout |-> 0, examples |-> ManyExamples, models |-> 1,
     dumps |-> 0, stale |-> MaxStale,
     moves |-> SideSteps, calls |-> 1 + ManyExamples]

NextExamples ==
    \/ InitModel
    \/ InitAppearance
    \/ InitNoOp
    \/ NextExample(ExamplesBox)
    \/ RotateUp(ExamplesBox)
    \/ RotateDown(ExamplesBox)

SpecExamples == Init /\ [][NextExamples]_vars

(* Sessions for every project_points whose pixel coordinates lie up to
   MaxOut half-frames either side of the principal point. *)

MaxOut == 3

RawPixels == {k * PixelStep : k \in -MaxOut .. MaxOut}

Projectors == [KpNames -> RawPixels \X RawPixels]

InitProject == \E proj \in Projectors : InitWith([SomeCollab EXCEPT !.project = proj])

ProjectBox ==
    [up |-> 0, down |-> 0, left |-> 0, right |-> 1,
     zin |-> 0, zout |-> 0, examples |-> 1, models |-> 1,
     dumps |-> 0, stale |-> MaxStale,
     moves |-> 1, calls |-> 2]

NextProject ==
    \/ InitModel
    \/ InitAppearance
    \/ InitNoOp
    \/ RotateRight(ProjectBox)
    \/ RotateLeft(ProjectBox)

SpecProject == InitProject /\ [][NextProject]_vars

(* Sessions for every float buffer of the renderer and every image of the
   network of MaxPixels pixels, with pixels of these kinds: for the buffer, all
   channels 0, a channel that the conversion to uint8 truncates to 0, one
   channel not 0, no channel 0; for the network, black, white and a colour. *)

MaxPixels == 2

BufferPixels ==
    {<<0, 0, 0>>, <<1, 0, 0>>, <<0, FloatScale, 0>>,
     <<FloatScale * 255, FloatScale * 128, FloatScale>>}

NetPixels == {<<0, 0, 0>>, <<255, 255, 255>>, <<10, 20, 30>>}

InitComposite ==
    \E buffer \in [1 .. MaxPixels -> BufferPixels] :
    \E net \in [1 .. MaxPixels -> NetPixels] :
        InitWith([SomeCollab EXCEPT !.capture = buffer, !.net = net])

NextComposite ==
    \/ InitModel
    \/ InitAppearance
    \/ InitNoOp
    \/ RotateRight(ProjectBox)
    \/ RotateLeft(ProjectBox)

SpecComposite == InitComposite /\ [][NextComposite]_vars

---------------------------------------------------------------------------
(* The claims *)

PoseBuilt == vpoint # << >>

(* C1: after any sequence of rotate and zoom events, the radius passed to the
   camera-pose computation is never negative. *)
C1_RadiusNonNegative == PoseBuilt => FloatLe(FloatZero, vpoint[1].radius)

(* C2, as stated: the elevation from which the camera pose of a call is built
   is always in [-90, 90]. *)
C2_ElevationWithin90 == PoseBuilt => vpoint[1].el \in -90 .. 90

(* C2, amended: the pitch from which the camera pose is built (angle_y after
   clamping) is always in [-90, 90]: it is the stored angle_y inside that range,
   90 above it and -90 below it; the elevation handed to the camera-pose
   computation is 90 minus that pitch, hence in [0, 180]. *)
C2_ClampedPitch ==
    PoseBuilt =>
        /\ vpoint[1].el \in 0 .. 180
        /\ (90 - vpoint[1].el) \in -90 .. 90
        /\ state.angle_y \in -90 .. 90 => vpoint[1].el = 90 - state.angle_y
        /\ state.angle_y > 90 => vpoint[1].el = 0
        /\ state.angle_y < -90 => vpoint[1].el = 180

C2_Witness ==
    /\ PoseBuilt
    /\ ev.key = "D"
    /\ state.angle_y = -95
    /\ vpoint[1].el = 180

(* C8: the azimuth used for the camera pose is congruent to yaw + 90 modulo 360
   and lies in [0, 360), also when yaw is negative or past 360; a yaw of 90,
   which 18 rotate_right events from yaw 0 give, has azimuth 180. *)
C8_Azimuth ==
    PoseBuilt =>
        /\ vpoint[1].az \in 0 .. 359
        /\ \E k \in -2 .. 2 : vpoint[1].az = state.angle_z + 90 - 360 * k
        /\ state.angle_z = 18 * AngleStep => vpoint[1].az = 180

C8_Witness ==
    /\ PoseBuilt
    /\ ev.key = "S"
    /\ state.angle_z = 90
    /\ vpoint[1].az = 180

C8_WitnessWrap ==
    /\ PoseBuilt
    /\ state.angle_z = 365
    /\ vpoint[1].az = 95

(* The scalars of the session state: the three viewpoint controls, the texture
   selection (the index and the record read with it), the CAD selection (the
   index and what was loaded for it) and the dump counter. *)
Entry(st, k) == IF Has(st, k) THEN <<st[k]>> ELSE << >>

Scalars(st) ==
    [pitch |-> st.angle_y,
     yaw |-> st.angle_z,
     radius |-> st.radius,
     texture |-> <<st.dataset_index, Entry(st, "texture_src")>>,
     cad |-> <<st.cad_idx, Entry(st, "kpoints_3d"), Entry(st, "normal_vertex_colors"),
               st.geometries>>,
     dump |-> st.dump_id]

(* C3: dump_frame leaves the viewpoint controls and the selections as they are
   and adds exactly 1 to the dump counter, and the k-th dump_frame of a session
   writes the file whose dump_id is k-1 (count.X dump_frame events came before
   this one). *)
C3_DumpFrame ==
    [][(phase = "loop" /\ ev'.key = "X") =>
            /\ Scalars(state') = [Scalars(state) EXCEPT !.dump = @ + 1]
            /\ files' = Append(files, count.X)]_vars

(* C4: an unsupported event raises for its call only: the dictionary, the files
   and the displayed frame are what they were, and the session goes on
   accepting events. *)
C4_UnsupportedEvent ==
    [][(phase = "loop" /\ ev'.key \in {"O", "P"}) =>
            /\ ev'.err = "NotImplementedError"
            /\ state' = state
            /\ files' = files
            /\ display' = display
            /\ phase' = "loop"]_vars

(* C5: the CAD index is always in 0..9 and is the number of next_model calls
   made since the index was 0, modulo 10; so 10 more next_model events, with
   whatever between them, bring it back. *)
C5_CadIndexCycle ==
    /\ state.cad_idx \in 0 .. 9
    /\ state.cad_idx = count.N % 10

C5_Witness ==
    /\ ev.key = "N"
    /\ count.N = 11
    /\ state.cad_idx = 1

(* C6: the no_op of the program, Callbacks(0) called at line 289, changes
   nothing of the session state, of the files and of the frame displayed; and
   in every state of the event loop, Callbacks(0) called on the window would
   leave every scalar of the session state as it is and composite the frame of
   that state, and called again would composite the identical frame and change
   nothing at all. *)
C6_NoOpIdempotent ==
    [][/\ ev'.key = KeyNoOp =>
            /\ ev'.err = "none"
            /\ state' = state
            /\ files' = files
            /\ display' = display
       /\ phase' = "loop" =>
            \A once \in {Call(state', KeyNoOp, TRUE, "none")} :
            \A twice \in {Call(once.st, KeyNoOp, TRUE, "none")} :
                /\ once.err = "none"
                /\ once.file = << >>
                /\ Scalars(once.st) = Scalars(state')
                /\ once.shown = <<OutImage(state')>>
                /\ twice.err = "none"
                /\ twice.shown = once.shown
                /\ twice.st = once.st]_vars

C6_Witness ==
    /\ phase = "loop"
    /\ ev.key = KeyNoOp
    /\ ~ev.window
    /\ ev.err = "none"
    /\ state.cad_idx = 1
    /\ state.dataset_index = 1
    /\ Call(state, KeyNoOp, TRUE, "none").shown = <<OutImage(state)>>

(* C7: every event other than no_op and dump_frame changes exactly one scalar:
   rotate_up and rotate_down the pitch by +5 and -5, rotate_right and
   rotate_left the yaw by +5 and -5, zoom_out and zoom_in the radius by one
   step, next_example the texture selection, next_model the CAD selection; every
   other scalar, the dump counter among them, stays. *)
C7_OneScalar ==
    [][phase = "loop" =>
        LET old == Scalars(state)
            new == Scalars(state')
            k == ev'.key
        IN  /\ k = "F" => new = [old EXCEPT !.pitch = @ + 5]
            /\ k = "D" => new = [old EXCEPT !.pitch = @ - 5]
            /\ k = "S" => new = [old EXCEPT !.yaw = @ + 5]
            /\ k = "A" => new = [old EXCEPT !.yaw = @ - 5]
            /\ k = "H" => /\ new.radius.steps = old.radius.steps + 1
                          /\ new = [old EXCEPT !.radius = new.radius]
            /\ k = "G" => /\ new.radius.steps = old.radius.steps - 1
                          /\ new = [old EXCEPT !.radius = new.radius]
            /\ k = " " => /\ new.texture # old.texture
                          /\ new = [old EXCEPT !.texture = new.texture]
            /\ k = "N" => /\ new.cad # old.cad
                          /\ new = [old EXCEPT !.cad = new.cad]]_vars

(* C9: with the controls at their defaults, as in a fresh session before any
   rotate or zoom event, the camera pose is built from azimuth 90, elevation 0
   and radius 7; each of the three initialisation calls builds it so. *)
C9_FreshViewpoint ==
    /\ phase \in {"init_appearance", "init_noop", "loop"} => PoseBuilt
    /\ (/\ PoseBuilt
        /\ state.angle_y = InitAngleY
        /\ state.angle_z = InitAngleZ
        /\ state.radius = InitRadius)
       => /\ vpoint[1] = [az |-> 90, el |-> 0, radius |-> FloatOfInt(7)]
          /\ IntRadius(vpoint[1].radius) = 7

C9_Witness ==
    /\ phase = "loop"
    /\ ev.key = KeyNoOp
    /\ ~ev.window
    /\ vpoint = <<[az |-> 90, el |-> 0, radius |-> FloatOfInt(7)]>>

(* C10: a key event runs one pass of the pipeline, whose steps come in the
   order mutation, camera pose, sketch capture, keypoint projection, plane
   resolution, warping, input assembly, synthesis, masking, tiling, display; the
   pass ends at the last step or at an error before it; and an event that ends
   without error leaves the frame composited from the state after the event. *)
ClaimedOrder ==
    <<"mutate", "pose", "capture", "project", "planes", "warp", "assemble",
      "synth", "mask", "tile", "display">>

C10_OnePass ==
    ev.window =>
        /\ ev.n \in 0 .. Len(ClaimedOrder)
        /\ Completed(ev.n) = SubSeq(ClaimedOrder, 1, ev.n)
        /\ ev.err = "none" <=> ev.n = Len(ClaimedOrder)
        /\ ev.err = "none" =>
                /\ Has(state, "dump_image")
                /\ state.dump_image = OutImage(state)
                /\ display = <<state.dump_image>>
                /\ count.stale = 0

C10_Witness ==
    /\ ev.window
    /\ ev.key = "F"
    /\ ev.err = "none"
    /\ Completed(ev.n) = ClaimedOrder
    /\ state.dump_image.el = 90 - 90
    /\ state.angle_y = InitAngleY + AngleStep

(* The frame cv2.imshow shows agrees with the frame stored as dump_image. *)
FrameShown(st, d) == d = Entry(st, "dump_image")

(* C11: a call in which the renderer's capture or the network raises leaves the
   stored and the displayed composited frame what they were, the frame of the
   last call that ran to its end (none, if there was none), whatever the call
   did to the state before it raised; the frame changes only in a call that
   runs to its end, and then to the frame of the whole pass. *)
C11_FailedTickKeepsFrame ==
    [][/\ ev'.err = "CollaboratorFailure" =>
            /\ Entry(state', "dump_image") = Entry(state, "dump_image")
            /\ display' = display
       /\ (display' # display \/ Entry(state', "dump_image") # Entry(state, "dump_image")) =>
            /\ ev'.err = "none"
            /\ ev'.n = Len(Stages)
            /\ display' = <<OutImage(state')>>
       /\ FrameShown(state', display')]_vars

C11_Witness ==
    /\ ev.err = "CollaboratorFailure"
    /\ ev.key = "S"
    /\ ev.n = StageIndex("synth") - 1
    /\ state.angle_z = InitAngleZ + AngleStep
    /\ Has(state, "dump_image")
    /\ state.dump_image.az = PascalAz(InitAngleZ)
    /\ display = <<state.dump_image>>

(* C12: once next_model has been called (the initialisation calls it first), the
   3D keypoints in the state and the mesh handed to the window are those read
   for the current cad_idx, in every state: after a next_model whose render
   raised as well, and with the mesh replaced in place from the second call on;
   the vertex normals that colour the mesh are of that index too. *)
C12_KeypointsOfCadIndex ==
    count.N >= 1 =>
        /\ Has(state, "kpoints_3d")
        /\ state.kpoints_3d = state.cad_idx
        /\ Has(state.geometries, "mesh")
        /\ state.geometries["mesh"].cad = state.cad_idx
        /\ state.geometries["mesh"].vertex_colors = state.cad_idx
        /\ state.normal_vertex_colors = state.cad_idx

C12_Witness ==
    /\ ev.key = "N"
    /\ ev.window
    /\ ev.err = "none"
    /\ count.N = NumCads + 2
    /\ state.cad_idx = 2
    /\ state.kpoints_3d = 2
    /\ state.geometries["mesh"].cad = 2
    /\ state.dump_image.kpoints = 2
    /\ state.dump_image.mesh = 2

(* C13: in every pass that projects the keypoints, the projected map has
   exactly the names of the 3D keypoints loaded (a projection outside the frame
   is clamped, not dropped), and both coordinates of every projected keypoint
   are in [-1, 1] (-KpScale .. KpScale steps), whatever project_points returns;
   a coordinate that was inside the frame is the one project_points gave,
   divided by the frame size. *)
C13_ProjectedKeypoints ==
    ev.kp2d # << >> =>
        LET kp == ev.kp2d[1]
        IN  /\ DOMAIN kp = DOMAIN Kpoints3dOf(state.kpoints_3d)
            /\ \A k \in DOMAIN kp :
                    /\ kp[k][1] \in -KpScale .. KpScale
                    /\ kp[k][2] \in -KpScale .. KpScale
                    /\ \A i \in 1 .. 2 :
                          collab.project[k][i] \in -ImgW .. ImgW =>
                              kp[k][i] * ImgW = collab.project[k][i] * KpScale

C13_Witness ==
    /\ ev.kp2d # << >>
    /\ ev.err = "none"
    /\ collab.project["k1"] = <<-3 * PixelStep, PixelStep>>
    /\ collab.project["k2"] = <<0, 3 * PixelStep>>
    /\ ev.kp2d[1] = [k \in KpNames |-> IF k = "k1" THEN <<-KpScale, 1>> ELSE <<0, KpScale>>]

(* C14: the composited frame is four tiles, left to right the sketch, the
   central reference, the masked synthesis and the original source; in the
   third, every pixel at which all channels of the sketch (the uint8 image
   src_normal) are 0 is 255 in all channels, and every other pixel is the pixel
   of the network's image. *)
C14_MaskedSynthesis ==
    ev.out # << >> =>
        LET out == ev.out[1]
            sketch == out[1].of
            masked == out[3].of
        IN  /\ Len(out) = 4
            /\ [i \in 1 .. 4 |-> out[i].tile] = <<"sketch", "central", "net_image", "src_image">>
            /\ sketch = SrcNormal(collab.capture)
            /\ Len(masked) = Len(collab.net)
            /\ \A i \in 1 .. Len(masked) :
                    IF sketch[i] = <<0, 0, 0>>
                    THEN masked[i] = <<255, 255, 255>>
                    ELSE masked[i] = collab.net[i]

C14_Witness ==
    /\ ev.out # << >>
    /\ ev.err = "none"
    /\ collab.capture = <<<<1, 0, 0>>, <<0, FloatScale, 0>>>>
    /\ collab.net = <<<<10, 20, 30>>, <<0, 0, 0>>>>
    /\ ev.out[1][3].of = <<<<255, 255, 255>>, <<0, 0, 0>>>>

(* C15: every dump_frame finds a composited frame to write: the call with key
   X reads state['dump_image'] without error, also when it is the first key
   event after the initialisation. *)
C15_FrameToDump ==
    (ev.key = "X" /\ ev.window) =>
        /\ ev.err = "none"
        /\ Has(state, "dump_image")

(* C16: the elevation, the azimuth and the radius in the name of a file that
   dump_frame writes are the elevation, the azimuth and the integer part of the
   radius of the camera pose of the pass that composited the frame written. *)
C16_FileNameOfPose ==
    ev.file # << >> =>
        LET f == ev.file[1]
        IN  /\ f.el = f.image.el
            /\ f.az = f.image.az
            /\ f.rad = IntRadius(f.image.radius)

(* C17: every next_example reads a record of the dataset: the index it reads
   with is in 0 .. DatasetSize - 1, the call selects the record of that index
   (the n-th call of a session record n - 1, dataset_index counting the calls),
   and the texture selection is defined from the first call on. *)
C17_ValidRecord ==
    /\ ev.key = " " =>
            /\ ev.err \in {"none", "CollaboratorFailure"}
            /\ state.dataset_index - 1 \in 0 .. (DatasetSize - 1)
            /\ Entry(state, "texture_src") = <<state.dataset_index - 1>>
    /\ state.dataset_index >= 1 => Has(state, "texture_src")

(* The pitch the last camera pose was built from: angle_y after the clamp. *)
PitchUsed(vp) == 90 - vp[1].el

(* C18: when the pitch used for the camera pose is at a limit, one rotate event
   away from the limit (rotate_down at +90, rotate_up at -90) moves the pitch
   used for the camera pose by 5 degrees, whatever events came before (which
   is to say that the stored pitch never goes past a limit). *)
C18_LeavesLimitAtOnce ==
    [][(phase = "loop" /\ PoseBuilt) =>
            /\ (ev'.key = "D" /\ PitchUsed(vpoint) = 90) => PitchUsed(vpoint') = 90 - AngleStep
            /\ (ev'.key = "F" /\ PitchUsed(vpoint) = -90) => PitchUsed(vpoint') = -90 + AngleStep]_vars

(* The entries of the state that lines 137-231 read and run() does not set. *)
PassEntries(st) ==
    /\ Has(st.geometries, "mesh")
    /\ Has(st, "normal_vertex_colors")
    /\ Has(st, "kpoints_3d")
    /\ Has(st, "texture_src")

(* C19: the three initialisation calls, made without a window, each return
   after the camera pose and before the rendering, without error; when the
   event loop starts, the mesh, the normal vertex colours, the 3D keypoints and
   the texture example are in the state, and they stay; so no pass after the
   if/elif chain of a later event fails on a missing entry: it runs to its end
   or stops where the renderer or the network raises. *)
C19_InitialisationDefines ==
    /\ ~ev.window =>
            /\ ev.err = "none"
            /\ ev.n <= StageIndex("pose")
            /\ phase # "ended"
    /\ phase \in {"loop", "ended"} => PassEntries(state)
    /\ (ev.window /\ ev.n >= StageIndex("mutate")) =>
            \/ ev.err = "none" /\ ev.n = Len(Stages)
            \/ ev.err = "CollaboratorFailure"

C19_Witness ==
    /\ phase = "loop"
    /\ ev.window
    /\ ev.key = "H"
    /\ ev.err = "none"
    /\ ev.n = Len(Stages)
    /\ count.N = 1
    /\ state.dataset_index = 1
    /\ PassEntries(state)
    /\ ~Has(InitState, "texture_src")

=============================================================================
